---- MODULE Spec2Model ----
(***************************************************************************)
(* A state-machine model of the Chip8 interpreter class (src/src/chip8.cpp). *)
(* The public operations (constructors, load_into_memory, cycle,           *)
(* set_keypad, set_DT, set_ST, reset) are the actions; the private opcode  *)
(* handlers are operators over a record holding the object's fields, so    *)
(* that the statements of a handler are applied in the order of the code.  *)
(***************************************************************************)
EXTENDS Integers, Sequences, FiniteSets, TLC

----------------------------------------------------------------------------
(* Sizes of the class *)

STACK_SIZE == 16

REGISTER_COUNT == 16

KEYPAD_OPTIONS == 16

MEMORY_SIZE == 4096

START == 512

WIDTH == 64

HEIGHT == 32

SPRITE_WIDTH == 8

FONTSET_SIZE == 80

----------------------------------------------------------------------------
(* Fixed-width integer arithmetic of the handlers *)

U8(n) == n % 256

U16(n) == n % 65536

RECURSIVE Pow2(_)
Pow2(n) == IF n = 0 THEN 1 ELSE 2 * Pow2(n - 1)

RECURSIVE BitOp(_, _, _, _)
\* bitwise combination of the low `bits` bits of a and b; kind is "or",
\* "and" or "xor"; the low and the high half are combined separately
BitOp(kind, a, b, bits) ==
  IF bits = 0 THEN 0
  ELSE IF bits = 1
       THEN LET x == a % 2
                y == b % 2
            IN CASE kind = "or"  -> (IF x + y > 0 THEN 1 ELSE 0)
                 [] kind = "and" -> x * y
                 [] OTHER        -> (x + y) % 2
       ELSE LET low == bits \div 2
                half == Pow2(low)
            IN BitOp(kind, a % half, b % half, low)
               + half * BitOp(kind, a \div half, b \div half, bits - low)

BitOr(a, b) == BitOp("or", a, b, 16)

BitAnd(a, b) == BitOp("and", a, b, 16)

BitXor(a, b) == BitOp("xor", a, b, 16)

ShiftRight(a, n) == a \div Pow2(n)

----------------------------------------------------------------------------
(* The font table copied to memory[0..79] by load_font_data *)

fontset ==
  << 240, 144, 144, 144, 240,
      32,  96,  32,  32, 112,
     240,  16, 240, 128, 240,
     240,  16, 240,  16, 240,
     144, 144, 240,  16,  16,
     240, 128, 240,  16, 240,
     240, 128, 240, 144, 240,
     240,  16,  32,  64,  64,
     240, 144, 240, 144, 240,
     240, 144, 240,  16, 240,
     240, 144, 240, 144, 144,
     224, 144, 224, 144, 224,
     240, 128, 128, 128, 240,
     224, 144, 144, 144, 224,
     240, 128, 240, 128, 240,
     240, 128, 240, 128, 128 >>

----------------------------------------------------------------------------
(* The object's fields.  ub records that an access outside an array        *)
(* (undefined behaviour) has happened; last is a history variable holding  *)
(* the last public operation and the part of the state before it that the  *)
(* properties below refer to; pending is a history variable holding the    *)
(* call site and stack pointer of the last call while no other stack       *)
(* instruction (call, return) or reset has followed it; drawn is a history *)
(* variable holding the display and the operands before the latest draw;   *)
(* stored is a history variable holding the operand X, the address I and   *)
(* the registers of the latest store of registers (FX55) while no byte it  *)
(* wrote has been changed since; calls is a history variable holding the   *)
(* return addresses of the calls not yet returned from, oldest first, and  *)
(* << -1 >> once a call was made with 16 outstanding or a return with      *)
(* none.                                                                   *)

VARIABLES stack, V, keypad, display_buffer, memory, I, PC, SP, DT, ST,
          waiting_for_input, target_register, ub, last, pending, drawn,
          stored, calls

fields == <<stack, V, keypad, display_buffer, memory, I, PC, SP, DT, ST,
            waiting_for_input, target_register>>

vars == <<stack, V, keypad, display_buffer, memory, I, PC, SP, DT, ST,
          waiting_for_input, target_register, ub, last, pending,
          drawn, stored, calls>>

\* the fields gathered in one record, the argument of the handlers
Self ==
  [ stack |-> stack, V |-> V, keypad |-> keypad,
    display_buffer |-> display_buffer, memory |-> memory,
    I |-> I, PC |-> PC, SP |-> SP, DT |-> DT, ST |-> ST,
    waiting_for_input |-> waiting_for_input,
    target_register |-> target_register, ub |-> ub ]

\* zero-filled arrays: what array::fill(0) and the {} initialisers give
ZeroStack == [i \in 0..(STACK_SIZE - 1) |-> 0]

ZeroV == [i \in 0..(REGISTER_COUNT - 1) |-> 0]

ZeroKeypad == [i \in 0..(KEYPAD_OPTIONS - 1) |-> 0]

ZeroDisplay == [i \in 0..(WIDTH * HEIGHT - 1) |-> 0]

ZeroMemory == [a \in 0..(MEMORY_SIZE - 1) |-> 0]

\* the member initialisers of the class: every array zero-filled
Fresh ==
  [ stack |-> ZeroStack,
    V |-> ZeroV,
    keypad |-> ZeroKeypad,
    display_buffer |-> ZeroDisplay,
    memory |-> ZeroMemory,
    I |-> 0, PC |-> START, SP |-> 0, DT |-> 0, ST |-> 0,
    waiting_for_input |-> FALSE, target_register |-> 0, ub |-> FALSE ]

----------------------------------------------------------------------------
(* Array accesses.  An index outside the array is undefined behaviour: a   *)
(* read yields a value chosen by the caller of the handler (nd), a write   *)
(* lands outside the modelled arrays; both set ub.                         *)

MemWrite(s, a, v) ==
  IF a < MEMORY_SIZE THEN [s EXCEPT !.memory[a] = v]
  ELSE [s EXCEPT !.ub = TRUE]

MemRead(s, a, nd) == IF a < MEMORY_SIZE THEN s.memory[a] ELSE nd.ubyte

MemTouch(s, a) == IF a < MEMORY_SIZE THEN s ELSE [s EXCEPT !.ub = TRUE]

----------------------------------------------------------------------------
(* Construction and the public mutators *)

\* fontset as the bytes std::copy writes from memory.begin() on
FontTable == [a \in 0..(FONTSET_SIZE - 1) |-> fontset[a + 1]]

load_font_data(s) == [s EXCEPT !.memory = FontTable @@ s.memory]

\* defect: the font is copied again over the loaded image
load_into_memory_keeping_font(s, image) ==
  load_font_data([s EXCEPT !.memory = image])

load_into_memory(s, image) == [s EXCEPT !.memory = image]

Chip8Default == load_font_data([Fresh EXCEPT !.memory = ZeroMemory])

\* defect: the font is copied before the image is loaded
Chip8Image_font_first(image) == load_into_memory(load_font_data(Fresh), image)

Chip8Image(image) == load_font_data(load_into_memory(Fresh, image))

set_DT(s, value) == [s EXCEPT !.DT = value]

set_ST(s, value) == [s EXCEPT !.ST = value]

\* defect: every keypad call ends the key wait, whatever the status
set_keypad_resuming(s, keypad_num, status) ==
  [s EXCEPT !.keypad[keypad_num] = status, !.waiting_for_input = FALSE]

set_keypad(s, keypad_num, status) == [s EXCEPT !.keypad[keypad_num] = status]

\* defect: the wait flag is not cleared
reset_keeps_wait(s) ==
  load_font_data(
    [s EXCEPT !.stack = ZeroStack,
              !.V = ZeroV,
              !.keypad = ZeroKeypad,
              !.display_buffer = ZeroDisplay,
              !.memory = ZeroMemory,
              !.I = 0, !.PC = START, !.SP = 0, !.DT = 0, !.ST = 0,
              !.target_register = 0])

reset(s) ==
  load_font_data(
    [s EXCEPT !.stack = ZeroStack,
              !.V = ZeroV,
              !.keypad = ZeroKeypad,
              !.display_buffer = ZeroDisplay,
              !.memory = ZeroMemory,
              !.I = 0, !.PC = START, !.SP = 0, !.DT = 0, !.ST = 0,
              !.target_register = 0, !.waiting_for_input = FALSE])

----------------------------------------------------------------------------
(* The opcode handlers, statement by statement.  s is the object before   *)
(* the handler; nd carries the values of this cycle that the program does *)
(* not determine: rnd, the random byte, and ubyte / uword / ubit, the     *)
(* results of reads outside an array.                                     *)

sys(s, address) == [s EXCEPT !.PC = BitAnd(address, 4095)]

\* defect: only the first row of the display is cleared
cls_first_row(s) ==
  [s EXCEPT !.display_buffer =
     [i \in 0..(WIDTH * HEIGHT - 1) |->
        IF i < WIDTH THEN 0 ELSE s.display_buffer[i]]]

cls(s) == [s EXCEPT !.display_buffer = ZeroDisplay]

\* defect: the stack is read before SP is decremented
ret_reads_first(s, nd) ==
  LET sp == U8(s.SP - 1 + 256)
  IN IF s.SP < STACK_SIZE
     THEN [s EXCEPT !.SP = sp, !.PC = s.stack[s.SP]]
     ELSE [s EXCEPT !.SP = sp, !.PC = nd.uword, !.ub = TRUE]

ret(s, nd) ==
  LET sp == U8(s.SP - 1 + 256)
  IN IF sp < STACK_SIZE
     THEN [s EXCEPT !.SP = sp, !.PC = s.stack[sp]]
     ELSE [s EXCEPT !.SP = sp, !.PC = nd.uword, !.ub = TRUE]

jump(s, address) == [s EXCEPT !.PC = BitAnd(address, 4095)]

\* defect: the call site, not the address after it, is pushed
call_pushes_site(s, address) ==
  LET s1 == IF s.SP < STACK_SIZE
            THEN [s EXCEPT !.stack[s.SP] = s.PC]
            ELSE [s EXCEPT !.ub = TRUE]
  IN [s1 EXCEPT !.PC = BitAnd(address, 4095), !.SP = U8(s.SP + 1)]

call(s, address) ==
  LET s1 == IF s.SP < STACK_SIZE
            THEN [s EXCEPT !.stack[s.SP] = U16(s.PC + 2)]
            ELSE [s EXCEPT !.ub = TRUE]
  IN [s1 EXCEPT !.PC = BitAnd(address, 4095), !.SP = U8(s.SP + 1)]

\* defect: the register index, not its content, is compared
skip_next_if_equal_byte_index(s, register_num, byte) ==
  IF register_num = byte THEN [s EXCEPT !.PC = U16(s.PC + 2)] ELSE s

skip_next_if_equal_byte(s, register_num, byte) ==
  IF s.V[register_num] = byte THEN [s EXCEPT !.PC = U16(s.PC + 2)] ELSE s

skip_next_if_not_equal_byte(s, register_num, byte) ==
  IF s.V[register_num] # byte THEN [s EXCEPT !.PC = U16(s.PC + 2)] ELSE s

skip_next_if_equal_registers(s, register_x, register_y) ==
  IF s.V[register_x] = s.V[register_y]
  THEN [s EXCEPT !.PC = U16(s.PC + 2)] ELSE s

load_from_byte(s, register_num, byte) == [s EXCEPT !.V[register_num] = byte]

add(s, register_num, byte) ==
  [s EXCEPT !.V[register_num] = U8(s.V[register_num] + byte)]

load_from_register_to_register(s, register_x, register_y) ==
  [s EXCEPT !.V[register_x] = s.V[register_y]]

\* defect: VF is reset after the operation
bitwise_or_resets_flag(s, register_x, register_y) ==
  LET s1 == [s EXCEPT !.V[register_x] =
               BitOr(s.V[register_x], s.V[register_y])]
  IN [s1 EXCEPT !.V[15] = 0]

bitwise_or(s, register_x, register_y) ==
  [s EXCEPT !.V[register_x] = BitOr(s.V[register_x], s.V[register_y])]

bitwise_and(s, register_x, register_y) ==
  [s EXCEPT !.V[register_x] = BitAnd(s.V[register_x], s.V[register_y])]

bitwise_xor(s, register_x, register_y) ==
  [s EXCEPT !.V[register_x] = BitXor(s.V[register_x], s.V[register_y])]

\* defect: the flag is written before the sum is taken from the registers
add_and_store_carry_flag_first(s, register_x, register_y) ==
  LET s1 == [s EXCEPT !.V[15] =
               IF s.V[register_x] + s.V[register_y] > 255 THEN 1 ELSE 0]
  IN [s1 EXCEPT !.V[register_x] =
        U8(s1.V[register_x] + s1.V[register_y])]

add_and_store_carry(s, register_x, register_y) ==
  LET sum == U16(s.V[register_x] + s.V[register_y])
      s1 == [s EXCEPT !.V[15] = IF sum > 255 THEN 1 ELSE 0]
  IN [s1 EXCEPT !.V[register_x] = BitAnd(sum, 255)]

subtract(s, register_x, register_y) ==
  LET s1 == [s EXCEPT !.V[15] =
               IF s.V[register_x] >= s.V[register_y] THEN 1 ELSE 0]
  IN [s1 EXCEPT !.V[register_x] =
        U8(s1.V[register_x] - s1.V[register_y] + 256)]

\* defect: the flag is taken after the shift
shift_right_flag_last(s, register_num) ==
  LET s1 == [s EXCEPT !.V[register_num] = ShiftRight(s.V[register_num], 1)]
  IN [s1 EXCEPT !.V[15] = BitAnd(s1.V[register_num], 1)]

shift_right(s, register_num) ==
  LET s1 == [s EXCEPT !.V[15] = BitAnd(s.V[register_num], 1)]
  IN [s1 EXCEPT !.V[register_num] = ShiftRight(s1.V[register_num], 1)]

reverse_subtract(s, register_x, register_y) ==
  LET s1 == [s EXCEPT !.V[15] =
               IF s.V[register_y] >= s.V[register_x] THEN 1 ELSE 0]
  IN [s1 EXCEPT !.V[register_x] =
        U8(s1.V[register_y] - s1.V[register_x] + 256)]

shift_left(s, register_num) ==
  LET s1 == [s EXCEPT !.V[15] = BitAnd(ShiftRight(s.V[register_num], 7), 1)]
  IN [s1 EXCEPT !.V[register_num] = U8(s1.V[register_num] * 2)]

skip_next_if_not_equal_registers(s, register_x, register_y) ==
  IF s.V[register_x] # s.V[register_y]
  THEN [s EXCEPT !.PC = U16(s.PC + 2)] ELSE s

\* defect: the address is stored in PC
load_I_into_PC(s, address) == [s EXCEPT !.PC = BitAnd(address, 4095)]

load_I(s, address) == [s EXCEPT !.I = BitAnd(address, 4095)]

\* defect: the offset is taken from VX, X the high nibble of the address
jump_off_register_x(s, address) ==
  [s EXCEPT !.PC = U16(s.V[(address \div 256) % 16] + address)]

jump_off_register(s, address) == [s EXCEPT !.PC = U16(s.V[0] + address)]

\* defect: the mask is or-ed in
rand_or(s, register_num, byte, nd) ==
  [s EXCEPT !.V[register_num] = BitOr(nd.rnd, byte)]

rand(s, register_num, byte, nd) ==
  [s EXCEPT !.V[register_num] = BitAnd(nd.rnd, byte)]

RECURSIVE DrawCols_adding(_, _, _, _, _)
\* defect: the sprite bit is added to the pixel, not XOR-ed into it
DrawCols_adding(s, byte, offset, register_x, col) ==
  IF col >= SPRITE_WIDTH THEN s
  ELSE LET bit == BitAnd(ShiftRight(byte, SPRITE_WIDTH - col - 1), 1)
       IN IF bit = 0
          THEN DrawCols_adding(s, byte, offset, register_x, col + 1)
          ELSE LET x == (s.V[register_x] + col) % WIDTH
                   pixel == s.display_buffer[x + offset]
                   s1 == IF pixel # 0 THEN [s EXCEPT !.V[15] = 1] ELSE s
                   s2 == [s1 EXCEPT !.display_buffer[x + offset] = pixel + 1]
               IN DrawCols_adding(s2, byte, offset, register_x, col + 1)

RECURSIVE DrawCols(_, _, _, _, _)
\* the inner loop of draw, from column col on
DrawCols(s, byte, offset, register_x, col) ==
  IF col >= SPRITE_WIDTH THEN s
  ELSE LET bit == BitAnd(ShiftRight(byte, SPRITE_WIDTH - col - 1), 1)
       IN IF bit = 0
          THEN DrawCols(s, byte, offset, register_x, col + 1)
          ELSE LET x == (s.V[register_x] + col) % WIDTH
                   pixel == s.display_buffer[x + offset]
                   s1 == IF pixel # 0 THEN [s EXCEPT !.V[15] = 1] ELSE s
                   s2 == [s1 EXCEPT !.display_buffer[x + offset] =
                                       BitXor(pixel, 1)]
               IN DrawCols(s2, byte, offset, register_x, col + 1)

RECURSIVE DrawRows(_, _, _, _, _, _)
\* the outer loop of draw, from row row on
DrawRows(s, register_x, register_y, height, row, nd) ==
  IF row >= height THEN s
  ELSE IF s.I + row < MEMORY_SIZE
       THEN LET byte == s.memory[s.I + row]
                y == (s.V[register_y] + row) % HEIGHT
                offset == y * WIDTH
            IN DrawRows(DrawCols(s, byte, offset, register_x, 0),
                        register_x, register_y, height, row + 1, nd)
       ELSE LET byte == MemRead(s, s.I + row, nd)
                s0 == MemTouch(s, s.I + row)
                y == (s0.V[register_y] + row) % HEIGHT
                offset == y * WIDTH
            IN DrawRows(DrawCols(s0, byte, offset, register_x, 0),
                        register_x, register_y, height, row + 1, nd)

\* defect: the row loop starts at 1
draw_from_second_row(s, register_x, register_y, height, nd) ==
  DrawRows([s EXCEPT !.V[15] = 0], register_x, register_y, height, 1, nd)

\* defect: VF is not cleared before the rows are drawn
draw_sticky_flag(s, register_x, register_y, height, nd) ==
  DrawRows(s, register_x, register_y, height, 0, nd)

draw(s, register_x, register_y, height, nd) ==
  DrawRows([s EXCEPT !.V[15] = 0], register_x, register_y, height, 0, nd)

skip_if_pressed(s, register_num, nd) ==
  LET k == s.V[register_num]
      inside == k < KEYPAD_OPTIONS
      pressed == IF inside THEN s.keypad[k] # 0 ELSE nd.ubit # 0
      s1 == IF inside THEN s ELSE [s EXCEPT !.ub = TRUE]
  IN IF pressed THEN [s1 EXCEPT !.PC = U16(s.PC + 2)] ELSE s1

skip_if_not_pressed(s, register_num, nd) ==
  LET k == s.V[register_num]
      inside == k < KEYPAD_OPTIONS
      pressed == IF inside THEN s.keypad[k] # 0 ELSE nd.ubit # 0
      s1 == IF inside THEN s ELSE [s EXCEPT !.ub = TRUE]
  IN IF ~pressed THEN [s1 EXCEPT !.PC = U16(s.PC + 2)] ELSE s1

load_from_delay_timer(s, register_x) == [s EXCEPT !.V[register_x] = s.DT]

\* defect: a key already held is stored at once, without waiting
store_key_press_polling(s, register_num) ==
  IF \E k \in 0..(KEYPAD_OPTIONS - 1) : s.keypad[k] # 0
  THEN [s EXCEPT !.V[register_num] =
          CHOOSE k \in 0..(KEYPAD_OPTIONS - 1) :
            s.keypad[k] # 0 /\ \A j \in 0..(k - 1) : s.keypad[j] = 0]
  ELSE [s EXCEPT !.waiting_for_input = TRUE,
                 !.target_register = register_num]

store_key_press(s, register_num) ==
  [s EXCEPT !.waiting_for_input = TRUE, !.target_register = register_num]

set_delay_timer(s, register_num) == [s EXCEPT !.DT = s.V[register_num]]

set_sound_timer(s, register_num) == [s EXCEPT !.ST = s.V[register_num]]

add_I(s, register_num) == [s EXCEPT !.I = U16(s.I + s.V[register_num])]

\* defect: only the low nibble of the register is used
load_sprite_low_nibble(s, register_num) ==
  [s EXCEPT !.I = (s.V[register_num] % 16) * 5]

load_sprite(s, register_num) == [s EXCEPT !.I = s.V[register_num] * 5]

\* defect: the tens digit is not reduced modulo 10
write_binary_coded_decimal_tens(s, register_num) ==
  LET s1 == MemWrite(s, s.I, s.V[register_num] \div 100)
      s2 == MemWrite(s1, s.I + 1, s.V[register_num] \div 10)
  IN MemWrite(s2, s.I + 2, s.V[register_num] % 10)

write_binary_coded_decimal(s, register_num) ==
  LET s1 == MemWrite(s, s.I, s.V[register_num] \div 100)
      s2 == MemWrite(s1, s.I + 1, (s.V[register_num] \div 10) % 10)
  IN MemWrite(s2, s.I + 2, s.V[register_num] % 10)

RECURSIVE StoreLoop(_, _, _, _)
\* the loop of store_memory_from_registers, from register i on
StoreLoop(s, register_num, ptr, i) ==
  IF i > register_num THEN s
  ELSE StoreLoop(MemWrite(s, ptr, s.V[i]), register_num, U16(ptr + 1), i + 1)

\* defect: the loop stops before register X
store_memory_from_registers_exclusive(s, register_num) ==
  StoreLoop(s, register_num - 1, s.I, 0)

\* defect: I is left after the last byte stored
store_memory_from_registers_advancing(s, register_num) ==
  [StoreLoop(s, register_num, s.I, 0) EXCEPT
     !.I = U16(s.I + register_num + 1)]

store_memory_from_registers(s, register_num) ==
  StoreLoop(s, register_num, s.I, 0)

RECURSIVE LoadLoop(_, _, _, _, _)
\* the loop of store_registers_from_memory, from register i on
LoadLoop(s, register_num, ptr, i, nd) ==
  IF i > register_num THEN s
  ELSE LoadLoop([MemTouch(s, ptr) EXCEPT !.V[i] = MemRead(s, ptr, nd)],
                register_num, U16(ptr + 1), i + 1, nd)

store_registers_from_memory(s, register_num, nd) ==
  LoadLoop(s, register_num, s.I, 0, nd)

----------------------------------------------------------------------------
(* cycle: fetch, decode, dispatch.  The body of Chip8::cycle is not part  *)
(* of the source at hand (chip8.cpp holds an empty definition); fetch,    *)
(* decoding, dispatch and the program-counter rule follow section 4.1 of  *)
(* the specification and the opcode patterns documented on the handlers.  *)

Family(opcode) == opcode \div 4096

OpX(opcode) == (opcode \div 256) % 16

OpY(opcode) == (opcode \div 16) % 16

OpN(opcode) == opcode % 16

OpNN(opcode) == opcode % 256

OpNNN(opcode) == opcode % 4096

\* the handler an opcode selects, by name; "none" for a word no handler takes
Handler(opcode) ==
  LET f == Family(opcode)
      n == OpN(opcode)
      nn == OpNN(opcode)
  IN CASE f = 0 -> (IF opcode = 224 THEN "cls"
                    ELSE IF opcode = 238 THEN "ret" ELSE "sys")
       [] f = 1 -> "jump"
       [] f = 2 -> "call"
       [] f = 3 -> "skip_next_if_equal_byte"
       [] f = 4 -> "skip_next_if_not_equal_byte"
       [] f = 5 -> "skip_next_if_equal_registers"
       [] f = 6 -> "load_from_byte"
       [] f = 7 -> "add"
       [] f = 8 -> (CASE n = 0 -> "load_from_register_to_register"
                      [] n = 1 -> "bitwise_or"
                      [] n = 2 -> "bitwise_and"
                      [] n = 3 -> "bitwise_xor"
                      [] n = 4 -> "add_and_store_carry"
                      [] n = 5 -> "subtract"
                      [] n = 6 -> "shift_right"
                      [] n = 7 -> "reverse_subtract"
                      [] n = 14 -> "shift_left"
                      [] OTHER -> "none")
       [] f = 9 -> "skip_next_if_not_equal_registers"
       [] f = 10 -> "load_I"
       [] f = 11 -> "jump_off_register"
       [] f = 12 -> "rand"
       [] f = 13 -> "draw"
       [] f = 14 -> (CASE nn = 158 -> "skip_if_pressed"
                       [] nn = 161 -> "skip_if_not_pressed"
                       [] OTHER -> "none")
       [] OTHER -> (CASE nn = 7 -> "load_from_delay_timer"
                      [] nn = 10 -> "store_key_press"
                      [] nn = 21 -> "set_delay_timer"
                      [] nn = 24 -> "set_sound_timer"
                      [] nn = 30 -> "add_I"
                      [] nn = 41 -> "load_sprite"
                      [] nn = 51 -> "write_binary_coded_decimal"
                      [] nn = 85 -> "store_memory_from_registers"
                      [] nn = 101 -> "store_registers_from_memory"
                      [] OTHER -> "none")

ControlTransfers == {"sys", "ret", "jump", "call", "jump_off_register"}

Skips == {"skip_next_if_equal_byte", "skip_next_if_not_equal_byte",
          "skip_next_if_equal_registers", "skip_next_if_not_equal_registers",
          "skip_if_pressed", "skip_if_not_pressed"}

\* the handlers after which cycle does not apply the default PC += 2
NoDefaultIncrement == ControlTransfers \cup {"store_key_press"}

Fetch(s, nd) == MemRead(s, s.PC, nd) * 256 + MemRead(s, s.PC + 1, nd)

Dispatch(s, opcode, nd) ==
  LET h == Handler(opcode)
      x == OpX(opcode)
      y == OpY(opcode)
      nn == OpNN(opcode)
      nnn == OpNNN(opcode)
  IN CASE h = "sys" -> sys(s, nnn)
       [] h = "cls" -> cls(s)
       [] h = "ret" -> ret(s, nd)
       [] h = "jump" -> jump(s, nnn)
       [] h = "call" -> call(s, nnn)
       [] h = "skip_next_if_equal_byte" -> skip_next_if_equal_byte(s, x, nn)
       [] h = "skip_next_if_not_equal_byte" ->
            skip_next_if_not_equal_byte(s, x, nn)
       [] h = "skip_next_if_equal_registers" ->
            skip_next_if_equal_registers(s, x, y)
       [] h = "load_from_byte" -> load_from_byte(s, x, nn)
       [] h = "add" -> add(s, x, nn)
       [] h = "load_from_register_to_register" ->
            load_from_register_to_register(s, x, y)
       [] h = "bitwise_or" -> bitwise_or(s, x, y)
       [] h = "bitwise_and" -> bitwise_and(s, x, y)
       [] h = "bitwise_xor" -> bitwise_xor(s, x, y)
       [] h = "add_and_store_carry" -> add_and_store_carry(s, x, y)
       [] h = "subtract" -> subtract(s, x, y)
       [] h = "shift_right" -> shift_right(s, x)
       [] h = "reverse_subtract" -> reverse_subtract(s, x, y)
       [] h = "shift_left" -> shift_left(s, x)
       [] h = "skip_next_if_not_equal_registers" ->
            skip_next_if_not_equal_registers(s, x, y)
       [] h = "load_I" -> load_I(s, nnn)
       [] h = "jump_off_register" -> jump_off_register(s, nnn)
       [] h = "rand" -> rand(s, x, nn, nd)
       [] h = "draw" -> draw(s, x, y, OpN(opcode), nd)
       [] h = "skip_if_pressed" -> skip_if_pressed(s, x, nd)
       [] h = "skip_if_not_pressed" -> skip_if_not_pressed(s, x, nd)
       [] h = "load_from_delay_timer" -> load_from_delay_timer(s, x)
       [] h = "store_key_press" -> store_key_press(s, x)
       [] h = "set_delay_timer" -> set_delay_timer(s, x)
       [] h = "set_sound_timer" -> set_sound_timer(s, x)
       [] h = "add_I" -> add_I(s, x)
       [] h = "load_sprite" -> load_sprite(s, x)
       [] h = "write_binary_coded_decimal" -> write_binary_coded_decimal(s, x)
       [] h = "store_memory_from_registers" ->
            store_memory_from_registers(s, x)
       [] h = "store_registers_from_memory" ->
            store_registers_from_memory(s, x, nd)
       [] OTHER -> s

\* one fetch-decode-execute step of a running engine
Step(s, nd) ==
  LET opcode == Fetch(s, nd)
      s0 == MemTouch(MemTouch(s, s.PC), s.PC + 1)
      s1 == Dispatch(s0, opcode, nd)
  IN IF Handler(opcode) \in NoDefaultIncrement THEN s1
     ELSE [s1 EXCEPT !.PC = U16(s1.PC + 2)]

\* defect: a waiting cycle polls the keypad and resumes on a held key
cycle_polling(s, nd) ==
  IF ~s.waiting_for_input THEN Step(s, nd)
  ELSE IF \E k \in 0..(KEYPAD_OPTIONS - 1) : s.keypad[k] # 0
       THEN [s EXCEPT !.V[s.target_register] =
               CHOOSE k \in 0..(KEYPAD_OPTIONS - 1) :
                 s.keypad[k] # 0 /\ \A j \in 0..(k - 1) : s.keypad[j] = 0,
                      !.PC = U16(s.PC + 2), !.waiting_for_input = FALSE]
       ELSE s

\* defect: a running cycle counts both timers down
cycle_ticking(s, nd) ==
  IF s.waiting_for_input THEN s
  ELSE LET s1 == Step(s, nd)
       IN [s1 EXCEPT !.DT = IF s1.DT > 0 THEN s1.DT - 1 ELSE 0,
                     !.ST = IF s1.ST > 0 THEN s1.ST - 1 ELSE 0]

cycle(s, nd) == IF s.waiting_for_input THEN s ELSE Step(s, nd)

----------------------------------------------------------------------------
(* Inputs: memory images, keys, timer values, and the values a cycle does *)
(* not determine.  A program is a sequence of segments, each a base       *)
(* address and the 16-bit words stored from it on, high byte first; every *)
(* other byte of its image is zero (the fixture of the tests).            *)

Seg(base, words) == [base |-> base, words |-> words]

ByteAt(segs, a) ==
  LET hit == {i \in 1..Len(segs) :
                /\ a >= segs[i].base
                /\ a < segs[i].base + 2 * Len(segs[i].words)}
  IN IF hit = {} THEN 0
     ELSE LET i == CHOOSE j \in hit : TRUE
              w == segs[i].words[((a - segs[i].base) \div 2) + 1]
          IN IF (a - segs[i].base) % 2 = 0 THEN w \div 256 ELSE w % 256

ImageOf(segs) == [a \in 0..(MEMORY_SIZE - 1) |-> ByteAt(segs, a)]

\* FX0A with X = 3, then a load and a jump to itself
ProgKeyWait == << Seg(START, << \hF30A, \h6507, \h1204 >>) >>

\* the program of the test ExecutionStopsUntilKeyPressed
ProgKeyWaitTest == << Seg(START, << \hF00A >>) >>

\* the program of the test LoadFontDataWorks
ProgFontProbe == << Seg(START, << \hA032, \hF465, \h1204 >>) >>

\* every conditional skip, taken and not taken, on register contents that
\* differ from the register indices
ProgSkips ==
  << Seg(START, << \h6105, \h6205, \h6307, \h640F,
                   \h3105, \h0000, \h3101, \h4105, \h4101, \h0000,
                   \h5120, \h0000, \h5130, \h9120, \h9130, \h0000,
                   \hE49E, \h124A, \hE4A1, \h1226, \h1228 >>),
     Seg(586, << \hE4A1, \h124E, \h124E, \h124E >>) >>

\* jump, sys, call and return, jump off V0 (the programs of the tests)
ProgJump == << Seg(START, << \h1FFF >>) >>

ProgSys == << Seg(START, << \h0F00 >>), Seg(3840, << \h1F00 >>) >>

ProgCallRet ==
  << Seg(START, << \h2F00, \h6B07, \h1204 >>),
     Seg(3840, << \h6A01, \h7A02, \hFA1E, \h00EE >>) >>

ProgNested ==
  << Seg(START, << \h2300, \h1202 >>),
     Seg(768, << \h6A01, \h2400, \h7A01, \h00EE >>),
     Seg(1024, << \h6C09, \h00EE >>) >>

ProgJumpOff == << Seg(START, << \h6020, \hBF00 >>), Seg(3872, << \h1F20 >>) >>

ProgJumpOffHigh == << Seg(START, << \h60FF, \hBFFF >>) >>

ProgRetEmpty == << Seg(START, << \h00EE >>) >>

ProgCallSelf == << Seg(START, << \h2200 >>) >>

\* one of each instruction that is neither a control transfer, a skip nor
\* the key wait
ProgAllOps ==
  << Seg(START, << \h00E0, \h6A12, \h7AF0, \h6B35, \h8CA0, \h8CB1, \h8CB2,
                   \h8CB3, \h8CB4, \h8CB5, \h8CB6, \h8CB7, \h8CBE, \hA300,
                   \hCD0F, \hFA07, \hFA15, \hFB18, \hFA1E, \hF129, \hD015,
                   \hFA33, \hF255, \hF265, \h1230 >>) >>

\* two sprites: 15 rows at 0x300, 4 rows at 0x320; 0x340 on is blank
SpriteData ==
  << Seg(768, << \hFF81, \hA500, \h0180, \hC33C, \h0FF0, \h55AA, \h1881,
                 \hFF00 >>),
     Seg(800, << \hFF42, \h2418 >>) >>

\* draw n rows of the first sprite at (V0, V1) = (x0, y0), then twice in
\* succession m rows of the sprite at address sprite2 at (V2, V3) = (x1, y1),
\* then the first sprite again
DrawProg(x0, y0, n, x1, y1, m, sprite2) ==
  << Seg(START, << 24576 + x0, 24832 + y0, \hA300, \hD010 + n,
                   25088 + x1, 25344 + y1, 40960 + sprite2, \hD230 + m,
                   \hD230 + m, \hA300, \hD010 + n, \h1216 >>) >>
  \o SpriteData

DrawOrigins == {<<0, 0>>, <<63, 31>>, <<60, 29>>, <<200, 100>>}

DrawHeights == {0, 1, 5, 15}

DrawSecondOrigins == {<<2, 1>>, <<62, 30>>, <<20, 10>>}

DrawSecondHeights == {1, 4}

DrawSecondSprites == {800, 832}

\* the program of the test DrawDetectsCollisonAndMarksVf
ProgDrawTest ==
  << Seg(START, << \h603F, \h611F, \h620A, \hF229, \hD015, \hD015,
                   \h120C >>) >>

\* the same draw twice with VF as the X register, and with VF as the Y
\* register
ProgDrawFlagX ==
  << Seg(START, << \h6100, \hA300, \hDF11, \hDF11, \h1208 >>) >>
  \o SpriteData

ProgDrawFlagY ==
  << Seg(START, << \h6100, \hA300, \hD1F2, \hD1F2, \h1208 >>) >>
  \o SpriteData

DrawPrograms ==
  { DrawProg(o[1], o[2], n, p[1], p[2], m, sp) :
      o \in DrawOrigins, n \in DrawHeights, p \in DrawSecondOrigins,
      m \in DrawSecondHeights, sp \in DrawSecondSprites }
  \cup {ProgDrawTest, ProgDrawFlagX, ProgDrawFlagY}

\* an image holding only the given words from the start address on
WordsImage(words) ==
  [a \in START..(START + 2 * Len(words) - 1) |->
     LET w == words[((a - START) \div 2) + 1]
     IN IF (a - START) % 2 = 0 THEN w \div 256 ELSE w % 256]
  @@ ZeroMemory

\* load a into VX, b into VY, f into VF (a later load wins when the
\* registers coincide), then execute 8XYK
AluProg(k, x, y, a, b, f) ==
  << 24576 + 256 * x + a, 24576 + 256 * y + b, 24576 + 256 * 15 + f,
     32768 + 256 * x + 16 * y + k, \h1208 >>

\* the last nibble of add, subtract, shift right, reverse subtract, shift
\* left
AluKinds == {4, 5, 6, 7, 14}

AluRegisters == {<<1, 2>>, <<1, 1>>, <<1, 15>>, <<15, 1>>, <<15, 15>>}

AluBytes == {0, 1, 128, 173, 255}

AluFlags == {0, 3}

\* CXNN on register 1, then a jump to itself
RandProg(nn) == << 49152 + 256 + nn, \h1202 >>

RandMasks == {0, 15, 165, 255}

AluPrograms ==
  { AluProg(k, xy[1], xy[2], a, b, f) :
      k \in AluKinds, xy \in AluRegisters, a \in AluBytes, b \in AluBytes,
      f \in AluFlags }
  \cup { RandProg(nn) : nn \in RandMasks }

\* programs of single instructions on chosen operands.  Bcd: FX33 of V1 = v
\* at I = i.  StoreLoad: FX55 at I = i with V0 = a, V1 = b, VF = 9, then V0
\* and V1 overwritten, FX33 of V1 at j, FX65 at I = i, a draw of the bytes
\* at 0x300.  Plain: VF = f, VX = a, VY = b (a later load wins), then 7XNN,
\* 8XY1, 8XY2, 8XY3, 8XY0.  Rand: CXNN with VF = 3 and V2 = 0xAA.  Sprite:
\* FX29 of V1 = v.  Top: an instruction that accesses memory through I, at
\* I = 0xFFF.  Above: the same after FX1E has added V0 = 0xFF to I.  Key: a
\* key query on V1 = v.
InsPrograms ==
  LET Bcd(v, i) == << \h6100 + v, \hA000 + i, \hF133, \h1206 >>
      StoreLoad(x, i, j, a, b) ==
        << \h6000 + a, \h6100 + b, \h6F09, \hA000 + i, \hF055 + 256 * x,
           \h6000 + (255 - a), \h7101, \hA000 + j, \hF133, \hA000 + i,
           \hF065 + 256 * x, \hA300, \hD015, \h121A >>
      Plain(x, y, a, b, f) ==
        << \h6F00 + f, \h6000 + 256 * x + a, \h6000 + 256 * y + b,
           \h7000 + 256 * x + \hF0, \h8001 + 256 * x + 16 * y,
           \h8002 + 256 * x + 16 * y, \h8003 + 256 * x + 16 * y,
           \h8000 + 256 * x + 16 * y, \h1210 >>
      Rand(nn) == << \h6F03, \h62AA, \hC100 + nn, \h1206 >>
      Sprite(v) == << \h6100 + v, \hF129, \h1204 >>
      Top(ins) == << \h60FF, \hAFFF, ins >>
      Above(ins) == << \h60FF, \hAFFF, \hF01E, ins >>
      Key(v, ins) == << \h6100 + v, ins, \h1204, \h1206 >>
  IN { Bcd(v, i) : v \in 0..255, i \in {768, 4093} }
     \cup { StoreLoad(p[1], p[2], p[3], ab[1], ab[2]) :
              p \in { <<0, 768, 784>>, <<2, 768, 784>>, <<2, 768, 769>>,
                      <<15, 768, 784>>, <<2, 4093, 784>>, <<15, 4080, 784>>,
                      <<0, 4095, 784>> },
              ab \in { <<18, 52>>, <<255, 0>> } }
     \cup { Plain(xy[1], xy[2], a, b, f) :
              xy \in { <<1, 2>>, <<1, 1>>, <<1, 15>> }, a \in {0, 173, 255},
              b \in {1, 90, 255}, f \in {0, 3} }
     \cup { Rand(nn) : nn \in {15, 165} }
     \cup { Sprite(v) : v \in 0..255 }
     \cup { Top(ins) : ins \in {\hD012, \hF133, \hF155, \hF165} }
     \cup { Above(ins) : ins \in {\hD012, \hF133, \hF155, \hF165} }
     \cup { Key(v, ins) : v \in {15, 16, 255}, ins \in {\hE19E, \hE1A1} }

\* both timers set from VA = 7, the delay timer read back, the glyph at
\* address 0 drawn at (0, 0), its first three rows drawn over it, the
\* display cleared, and again
ProgHost ==
  << \h6A07, \hFA15, \hFA18, \hFC07, \hD005, \hD003, \h00E0, \h1200 >>

Programs ==
  { ProgKeyWait, ProgKeyWaitTest, ProgFontProbe, ProgSkips, ProgJump,
    ProgSys, ProgCallRet, ProgNested, ProgJumpOff, ProgJumpOffHigh,
    ProgRetEmpty, ProgCallSelf, ProgAllOps }

\* the images given to the constructor
Images == {ImageOf(p) : p \in Programs}

\* the images given to load_into_memory
LoadImages == {ImageOf(p) : p \in {ProgKeyWait, ProgFontProbe, ProgKeyWaitTest}}

\* the same images, numbered, so that a call can be told from its record
LoadPrograms == << ProgKeyWait, ProgFontProbe, ProgKeyWaitTest >>

LoadImageSeq == [i \in 1..Len(LoadPrograms) |-> ImageOf(LoadPrograms[i])]

\* an image whose first bytes, where the font goes, are not zero
ProgLowBytes ==
  << Seg(0, << \hABCD, \h1234 >>), Seg(78, << \h5566, \h7788 >>),
     Seg(START, << \h6A01, \h1202 >>) >>

\* the images given to the constructor when its argument is recorded
CtorPrograms == << ProgKeyWait, ProgLowBytes, ProgAllOps >>

CtorImageSeq == [i \in 1..Len(CtorPrograms) |-> ImageOf(CtorPrograms[i])]

Keys == {0, 15}

Statuses == {0, 1}

TimerValues == {0, 5}

\* every byte generate_random_uint8 can return
RandBytes == 0..255

UndefBytes == {0, 255}

UndefWords == {0, 514, 65535}

Nd0 == [rnd |-> 0, ubyte |-> 0, uword |-> 0, ubit |-> 0]

\* the choices of one cycle: the random byte when the instruction is rand,
\* the values read when the cycle reads outside an array
NdChoices(s) ==
  IF cycle(s, Nd0).ub /\ ~s.ub
  THEN [rnd : {0}, ubyte : UndefBytes, uword : UndefWords, ubit : {0, 1}]
  ELSE IF ~s.waiting_for_input /\ Handler(Fetch(s, Nd0)) = "rand"
       THEN [rnd : RandBytes, ubyte : {0}, uword : {0}, ubit : {0}]
       ELSE {Nd0}

----------------------------------------------------------------------------
(* The state machine *)

Store(s) ==
  /\ stack' = s.stack
  /\ V' = s.V
  /\ keypad' = s.keypad
  /\ display_buffer' = s.display_buffer
  /\ memory' = s.memory
  /\ I' = s.I
  /\ PC' = s.PC
  /\ SP' = s.SP
  /\ DT' = s.DT
  /\ ST' = s.ST
  /\ waiting_for_input' = s.waiting_for_input
  /\ target_register' = s.target_register
  /\ ub' = s.ub

Op(name, opcode, a, b) ==
  [op |-> name, opcode |-> opcode, pc |-> PC, waiting |-> waiting_for_input,
   a |-> a, b |-> b]

NoCall == [site |-> -1, sp |-> -1]

\* drawn: the display and the operands as they were before the latest draw
NoDraw == [display |-> << >>, vx |-> -1, vy |-> -1, i |-> -1]

BeforeDraw(opcode) ==
  [display |-> display_buffer, vx |-> V[OpX(opcode)], vy |-> V[OpY(opcode)],
   i |-> I]

\* stored: the operands of the latest FX55 whose bytes are still in memory
NoStore == [x |-> -1, i |-> -1, v |-> << >>]

FirstOp ==
  /\ last = [op |-> "construct", opcode |-> -1, pc |-> START,
             waiting |-> FALSE, a |-> 0, b |-> 0]
  /\ pending = NoCall
  /\ drawn = NoDraw
  /\ stored = NoStore
  /\ calls = << >>

InitWith(s) ==
  /\ stack = s.stack
  /\ V = s.V
  /\ keypad = s.keypad
  /\ display_buffer = s.display_buffer
  /\ memory = s.memory
  /\ I = s.I
  /\ PC = s.PC
  /\ SP = s.SP
  /\ DT = s.DT
  /\ ST = s.ST
  /\ waiting_for_input = s.waiting_for_input
  /\ target_register = s.target_register
  /\ ub = s.ub

Init ==
  /\ \/ InitWith(Chip8Default)
     \/ \E image \in Images : InitWith(Chip8Image(image))
  /\ FirstOp

\* for a cycle, last holds the opcode fetched (-1 while waiting) and, in a
\* and b, the pending call before the cycle
Cycle ==
  /\ ~ub
  /\ \E nd \in NdChoices(Self) :
       LET opcode == IF waiting_for_input THEN -1 ELSE Fetch(Self, nd)
           h == IF waiting_for_input THEN "none" ELSE Handler(opcode)
       IN /\ Store(cycle(Self, nd))
          /\ last' = Op("cycle", opcode, pending.site, pending.sp)
          /\ pending' = CASE h = "call" -> [site |-> PC, sp |-> SP]
                          [] h = "ret" -> NoCall
                          [] OTHER -> pending
          /\ drawn' = IF h = "draw" THEN BeforeDraw(opcode) ELSE drawn
          /\ stored' =
               IF h = "store_memory_from_registers"
               THEN [x |-> OpX(opcode), i |-> I, v |-> V]
               ELSE IF \E k \in 0..stored.x :
                         /\ stored.i + k < MEMORY_SIZE
                         /\ memory'[stored.i + k] # memory[stored.i + k]
                    THEN NoStore
                    ELSE stored
          /\ calls' =
               CASE h = "call" ->
                      IF calls = << -1 >> \/ Len(calls) >= STACK_SIZE
                      THEN << -1 >> ELSE Append(calls, PC + 2)
                 [] h = "ret" ->
                      IF calls = << -1 >> \/ calls = << >>
                      THEN << -1 >> ELSE SubSeq(calls, 1, Len(calls) - 1)
                 [] OTHER -> calls

\* last.a is the number of the image loaded
LoadIntoMemory ==
  /\ ~ub
  /\ \E i \in 1..Len(LoadPrograms) :
       /\ Store(load_into_memory(Self, LoadImageSeq[i]))
       /\ last' = Op("load_into_memory", -1, i, 0)
  /\ stored' = NoStore
  /\ UNCHANGED <<pending, drawn, calls>>

SetKeypad ==
  /\ ~ub
  /\ \E k \in Keys, status \in Statuses :
       /\ Store(set_keypad(Self, k, status))
       /\ last' = Op("set_keypad", -1, k, status)
  /\ UNCHANGED <<pending, drawn, stored, calls>>

SetDT ==
  /\ ~ub
  /\ \E value \in TimerValues :
       /\ Store(set_DT(Self, value))
       /\ last' = Op("set_DT", -1, value, 0)
  /\ UNCHANGED <<pending, drawn, stored, calls>>

SetST ==
  /\ ~ub
  /\ \E value \in TimerValues :
       /\ Store(set_ST(Self, value))
       /\ last' = Op("set_ST", -1, value, 0)
  /\ UNCHANGED <<pending, drawn, stored, calls>>

Reset ==
  /\ ~ub
  /\ Store(reset(Self))
  /\ last' = Op("reset", -1, 0, 0)
  /\ pending' = NoCall
  /\ drawn' = NoDraw
  /\ stored' = NoStore
  /\ calls' = << >>

NextRun == Cycle \/ SetKeypad

NextWait == Cycle \/ LoadIntoMemory \/ SetKeypad \/ SetDT \/ SetST

NextReset == Cycle \/ SetKeypad \/ Reset

InitRun == Init

InitWait ==
  /\ \E image \in LoadImages : InitWith(Chip8Image(image))
  /\ FirstOp

\* construction with the constructor's argument recorded in last.a: 0 for
\* the default constructor, the number of the image otherwise
CtorOp(i) ==
  /\ last = [op |-> "construct", opcode |-> -1, pc |-> START,
             waiting |-> FALSE, a |-> i, b |-> 0]
  /\ pending = NoCall
  /\ drawn = NoDraw
  /\ stored = NoStore
  /\ calls = << >>

InitCtor ==
  \/ InitWith(Chip8Default) /\ CtorOp(0)
  \/ \E i \in 1..Len(CtorPrograms) :
       InitWith(Chip8Image(CtorImageSeq[i])) /\ CtorOp(i)

InitDraw ==
  /\ \E p \in DrawPrograms : InitWith(Chip8Image(ImageOf(p)))
  /\ FirstOp

NextCycle == Cycle

InitAlu ==
  /\ \E words \in AluPrograms : InitWith(Chip8Image(WordsImage(words)))
  /\ FirstOp

InitIns ==
  /\ \E words \in InsPrograms : InitWith(Chip8Image(WordsImage(words)))
  /\ FirstOp

SpecIns == InitIns /\ [][NextCycle]_vars

\* every public operation of the class, in any order; the host loads the
\* third image and presses key 0
NextHost ==
  \/ Cycle
  \/ LoadIntoMemory /\ last'.a = 3
  \/ SetKeypad /\ last'.a = 0 /\ last'.b = 1
  \/ SetDT
  \/ SetST
  \/ Reset

InitHost ==
  /\ InitWith(Chip8Image(WordsImage(ProgHost)))
  /\ FirstOp

SpecHost == InitHost /\ [][NextHost]_vars

SpecRun == InitRun /\ [][NextRun]_vars

SpecDraw == InitDraw /\ [][NextCycle]_vars

SpecAlu == InitAlu /\ [][NextCycle]_vars

SpecCtor == InitCtor /\ [][NextRun]_vars

SpecWait == InitWait /\ [][NextWait]_vars

SpecReset == Init /\ [][NextReset]_vars

----------------------------------------------------------------------------
(* Vocabulary of the properties *)

\* the handler the last operation ran: "none" unless it was a running cycle
LastHandler ==
  IF last.op = "cycle" /\ last.opcode >= 0 THEN Handler(last.opcode)
  ELSE "none"

\* the next operation is a cycle of a running engine that executes opcode
\* last'.opcode
RunningCycle == ~waiting_for_input /\ last'.op = "cycle"

\* the smallest index of a key marked pressed
FirstPressed(kp) ==
  CHOOSE k \in 0..(KEYPAD_OPTIONS - 1) :
    kp[k] # 0 /\ \A j \in 0..(k - 1) : kp[j] = 0

\* the instructions that are neither control transfers, skips nor the key wait
PlainHandlers ==
  { "cls", "load_from_byte", "add", "load_from_register_to_register",
    "bitwise_or", "bitwise_and", "bitwise_xor", "add_and_store_carry",
    "subtract", "shift_right", "reverse_subtract", "shift_left", "load_I",
    "rand", "draw", "load_from_delay_timer", "set_delay_timer",
    "set_sound_timer", "add_I", "load_sprite", "write_binary_coded_decimal",
    "store_memory_from_registers", "store_registers_from_memory" }

KeySkips == {"skip_if_pressed", "skip_if_not_pressed"}

\* the condition of the skip opcode, on the registers and keypad before it
SkipCondition(opcode) ==
  LET h == Handler(opcode)
      x == OpX(opcode)
      y == OpY(opcode)
  IN CASE h = "skip_next_if_equal_byte" -> V[x] = OpNN(opcode)
       [] h = "skip_next_if_not_equal_byte" -> V[x] # OpNN(opcode)
       [] h = "skip_next_if_equal_registers" -> V[x] = V[y]
       [] h = "skip_next_if_not_equal_registers" -> V[x] # V[y]
       [] h = "skip_if_pressed" -> keypad[V[x]] # 0
       [] OTHER -> keypad[V[x]] = 0

----------------------------------------------------------------------------
C2_KeyWaitEntersWait ==
  [][(RunningCycle /\ Handler(last'.opcode) = "store_key_press")
       => /\ waiting_for_input'
          /\ target_register' = OpX(last'.opcode)
          /\ PC' = PC
          /\ UNCHANGED <<V, memory, display_buffer, stack, DT, ST, I, SP,
                         keypad>>]_vars

\* FX0A has just been executed while key F was held
C2_Witness ==
  /\ LastHandler = "store_key_press"
  /\ keypad[15] # 0
  /\ waiting_for_input
  /\ target_register = 3
  /\ PC = last.pc

(* C3: set_keypad(k, pressed) called while the engine waits with target r *)
(* returns with V[r] the smallest pressed key index, PC advanced by 2 and *)
(* the engine running.                                                    *)
C3_KeyPressResumes ==
  [][(waiting_for_input /\ last'.op = "set_keypad" /\ last'.b = 1)
       => /\ ~waiting_for_input'
          /\ PC' = PC + 2
          /\ V'[target_register] = FirstPressed(keypad')]_vars

(* C4: after FX0A at A with no key pressed, set_keypad(k, pressed) and    *)
(* then one cycle give V[X] = k and PC = A + 2.                           *)
C4_OneCycleAfterKeyPress ==
  [][(/\ last.op = "set_keypad"
      /\ last.b = 1
      /\ last.waiting
      /\ \A j \in 0..(KEYPAD_OPTIONS - 1) : (keypad[j] # 0) <=> (j = last.a)
      /\ last'.op = "cycle")
       => /\ V'[target_register] = last.a
          /\ PC' = last.pc + 2]_vars

(* C5: once waiting, the engine stays waiting, with PC and the target      *)
(* register unchanged, through cycle, set_DT, set_ST, load_into_memory and *)
(* set_keypad(k, released); only set_keypad(k, pressed) and reset can end  *)
(* the wait.                                                               *)
C5_WaitPersists ==
  [][/\ (/\ waiting_for_input
         /\ \/ last'.op \in {"cycle", "set_DT", "set_ST", "load_into_memory"}
            \/ (last'.op = "set_keypad" /\ last'.b = 0))
          => /\ waiting_for_input'
             /\ PC' = PC
             /\ target_register' = target_register
     /\ (waiting_for_input /\ ~waiting_for_input')
          => \/ (last'.op = "set_keypad" /\ last'.b = 1)
             \/ last'.op = "reset"]_vars

\* a key was released during a wait that began with a key held, and the
\* engine still waits at the key-wait instruction
C5_Witness ==
  /\ last.op = "set_keypad"
  /\ last.b = 0
  /\ last.waiting
  /\ keypad[15] # 0
  /\ waiting_for_input
  /\ PC = START
  /\ DT = 5

(* C6: a running cycle whose instruction is neither a control transfer,  *)
(* a conditional skip nor the key wait leaves PC exactly 2 above its      *)
(* value before the cycle.                                                *)
C6_DefaultIncrementOnce ==
  [][(RunningCycle /\ Handler(last'.opcode) \in PlainHandlers)
       => PC' = PC + 2]_vars

\* a store (FX55) has just run and PC is 2 above its address
C6_Witness ==
  /\ LastHandler = "store_memory_from_registers"
  /\ ~ub
  /\ PC = last.pc + 2

(* C7: a conditional skip (3XNN, 4XNN, 5XY0, 9XY0, EX9E, EXA1) leaves PC  *)
(* 4 above its value when its condition holds on the register contents    *)
(* and 2 above when it does not, and changes nothing else.                *)
C7_SkipAdvance ==
  [][(/\ RunningCycle
      /\ Handler(last'.opcode) \in Skips
      /\ Handler(last'.opcode) \in KeySkips
           => V[OpX(last'.opcode)] < KEYPAD_OPTIONS)
       => /\ PC' = PC + (IF SkipCondition(last'.opcode) THEN 4 ELSE 2)
          /\ UNCHANGED <<stack, V, keypad, display_buffer, memory, I, SP,
                         DT, ST, waiting_for_input, target_register>>]_vars

\* 3101 has just run with V1 = 5: the register index equals the byte, the
\* content does not, and the next instruction was not skipped
C7_Witness ==
  /\ LastHandler = "skip_next_if_equal_byte"
  /\ OpX(last.opcode) = 1
  /\ OpNN(last.opcode) = 1
  /\ V[1] = 5
  /\ PC = last.pc + 2

C9_CallThenReturn ==
  (/\ LastHandler = "ret"
   /\ last.a >= 0
   /\ last.b < STACK_SIZE)
    => (PC = last.a + 2 /\ SP = last.b)

\* the return of the subroutine at 0xF00 has run after three other
\* instructions, back to the call at the start address
C9_Witness ==
  /\ LastHandler = "ret"
  /\ last.a = START
  /\ last.b = 0
  /\ V[10] = 3
  /\ I = 3
  /\ PC = START + 2
  /\ SP = 0

(* C10: after reset, from any state, every register, the stack, the       *)
(* keypad, the display, I, SP, DT and ST are zero, the engine is running  *)
(* with target register 0, memory holds the font table at 0..79 and zero  *)
(* elsewhere, and PC is the start address: the state of a                 *)
(* default-constructed interpreter.                                       *)
C10_ResetRestoresDefault ==
  (last.op = "reset")
    => /\ \A i \in 0..(REGISTER_COUNT - 1) : V[i] = 0
       /\ \A i \in 0..(STACK_SIZE - 1) : stack[i] = 0
       /\ \A i \in 0..(KEYPAD_OPTIONS - 1) : keypad[i] = 0
       /\ \A i \in 0..(WIDTH * HEIGHT - 1) : display_buffer[i] = 0
       /\ I = 0 /\ SP = 0 /\ DT = 0 /\ ST = 0
       /\ ~waiting_for_input
       /\ target_register = 0
       /\ \A a \in 0..(MEMORY_SIZE - 1) :
            memory[a] = IF a < FONTSET_SIZE THEN fontset[a + 1] ELSE 0
       /\ PC = START
       /\ Self = Chip8Default

\* reset has just been called on an engine that was waiting for a key
C10_Witness ==
  /\ last.op = "reset"
  /\ last.waiting
  /\ ~waiting_for_input

C12_FontSurvivesLoad ==
  /\ (last.op = "load_into_memory")
       => \A a \in 0..(FONTSET_SIZE - 1) : memory[a] = fontset[a + 1]
  /\ (/\ LastHandler = "store_registers_from_memory"
      /\ OpX(last.opcode) = 4
      /\ I = 50)
       => <<V[0], V[1], V[2], V[3], V[4]>> = <<240, 144, 240, 144, 144>>

(* C13: right after construction PC = 0x200, SP = 0, I = 0, the           *)
(* registers, stack, keypad, display, DT and ST are zero, the engine is    *)
(* running, memory[0..79] is the font table, and memory[80..4095] is zero  *)
(* (default constructor) or the image's bytes (image constructor).         *)
C13_ConstructedState ==
  (last.op = "construct")
    => /\ PC = START /\ SP = 0 /\ I = 0 /\ DT = 0 /\ ST = 0
       /\ \A i \in 0..(REGISTER_COUNT - 1) : V[i] = 0
       /\ \A i \in 0..(STACK_SIZE - 1) : stack[i] = 0
       /\ \A i \in 0..(KEYPAD_OPTIONS - 1) : keypad[i] = 0
       /\ \A i \in 0..(WIDTH * HEIGHT - 1) : display_buffer[i] = 0
       /\ ~waiting_for_input
       /\ \A a \in 0..(FONTSET_SIZE - 1) : memory[a] = fontset[a + 1]
       /\ \A a \in FONTSET_SIZE..(MEMORY_SIZE - 1) :
            memory[a] = IF last.a = 0 THEN 0 ELSE CtorImageSeq[last.a][a]

\* the image constructor has run on an image with other bytes where the
\* font goes and with bytes on both sides of address 80
C13_Witness ==
  /\ last.op = "construct"
  /\ last.a = 2
  /\ CtorImageSeq[2][0] = 171
  /\ memory[0] = 240
  /\ memory[79] = 128
  /\ memory[80] = 119
  /\ memory[START] = 106

(* Vocabulary of the draw claims: the sprite bit of row r and column c,   *)
(* most significant bit leftmost, and the display cells that the set bits *)
(* of the sprite target, each wrapped on its own.                         *)
SpriteBit(opcode, r, c) == (memory[I + r] \div Pow2(7 - c)) % 2

TargetCell(opcode, r, c) ==
  ((V[OpY(opcode)] + r) % 32) * 64 + ((V[OpX(opcode)] + c) % 64)

Targets(opcode) ==
  UNION { { TargetCell(opcode, r, c) :
              c \in {k \in 0..7 : SpriteBit(opcode, r, k) = 1} } :
          r \in 0..(OpN(opcode) - 1) }

\* the cycle executes a draw whose X and Y are not F
DrawStep ==
  /\ RunningCycle
  /\ Handler(last'.opcode) = "draw"
  /\ OpX(last'.opcode) # 15
  /\ OpY(last'.opcode) # 15

\* the rows of the sprite lie inside memory
SpriteInMemory == I + OpN(last'.opcode) <= MEMORY_SIZE

(* C14: after draw DXYN with X, Y other than F a display cell is toggled  *)
(* if and only if a set sprite bit (row r < N, column c < 8, bit 7 - c of *)
(* memory[I + r]) targets it at ((Vx + c) mod 64, (Vy + r) mod 32); every *)
(* other cell is unchanged.                                               *)
C14_DrawTogglesTargets ==
  [][(DrawStep /\ SpriteInMemory)
       => /\ \A cell \in Targets(last'.opcode) :
               display_buffer'[cell] = (display_buffer[cell] + 1) % 2
          /\ \A cell \in (0..(WIDTH * HEIGHT - 1)) \ Targets(last'.opcode) :
               display_buffer'[cell] = display_buffer[cell]]_vars

\* five rows drawn at (63, 31) on a clear screen: the sprite continues at
\* column 0 and at row 0
C14_Witness ==
  /\ LastHandler = "draw"
  /\ last.opcode = 53269
  /\ last.pc = START + 6
  /\ V[0] = 63 /\ V[1] = 31
  /\ display_buffer[31 * 64 + 63] = 1
  /\ display_buffer[31 * 64 + 0] = 1
  /\ display_buffer[0 * 64 + 63] = 1
  /\ display_buffer[0 * 64 + 6] = 1
  /\ display_buffer[0 * 64 + 1] = 0
  /\ display_buffer[30 * 64 + 63] = 0

(* C15: after draw DXYN with X, Y other than F, VF = 1 if and only if a   *)
(* set sprite bit targeted a cell that was 1 before the draw, and VF = 0  *)
(* otherwise, whatever VF held before.                                    *)
C15_DrawCollisionFlag ==
  [][(DrawStep /\ SpriteInMemory)
       => LET collision ==
                \E r \in 0..(OpN(last'.opcode) - 1) :
                  \E c \in 0..7 :
                    /\ SpriteBit(last'.opcode, r, c) = 1
                    /\ display_buffer[TargetCell(last'.opcode, r, c)] = 1
          IN V'[15] = (IF collision THEN 1 ELSE 0)]_vars

\* the second sprite has been drawn over part of the first: VF = 1 and
\* pixels of both remain
C15_Witness ==
  /\ LastHandler = "draw"
  /\ last.pc = START + 14
  /\ last.opcode = 53812
  /\ V[0] = 0 /\ V[1] = 0 /\ V[2] = 2 /\ V[3] = 1
  /\ I = 800
  /\ V[15] = 1
  /\ display_buffer[0] = 1
  /\ \E cell \in 0..(WIDTH * HEIGHT - 1) :
       display_buffer[cell] = 1 /\ drawn.display[cell] = 0

(* C16: the same draw executed twice in succession, with Vx, Vy, I and    *)
(* the sprite bytes unchanged between the two, leaves the display as it   *)
(* was before the first draw, and VF = 1 after the second whenever the    *)
(* sprite has a set bit.                                                  *)
C16_DrawTwiceRestores ==
  [][(/\ RunningCycle
      /\ Handler(last'.opcode) = "draw"
      /\ LastHandler = "draw"
      /\ last.opcode = last'.opcode
      /\ drawn.vx = V[OpX(last'.opcode)]
      /\ drawn.vy = V[OpY(last'.opcode)]
      /\ drawn.i = I)
       => /\ display_buffer' = drawn.display
          /\ (\E r \in 0..(OpN(last'.opcode) - 1), c \in 0..7 :
                SpriteBit(last'.opcode, r, c) = 1) => V'[15] = 1]_vars

\* the cycle executes the given handler with X other than F
AluStep(handler) ==
  /\ RunningCycle
  /\ Handler(last'.opcode) = handler
  /\ OpX(last'.opcode) # 15

\* no register but VX and VF is changed
OtherRegistersKept ==
  \A r \in 0..(REGISTER_COUNT - 1) :
    (r # OpX(last'.opcode) /\ r # 15) => V'[r] = V[r]

(* C17: add registers 8XY4 with X other than F leaves Vx = (Vx + Vy) mod  *)
(* 256 and VF = 1 if Vx + Vy > 255 else 0, both from the values before    *)
(* the instruction, for every Y (Y = X and Y = F included); no other      *)
(* register changes.                                                      *)
C17_AddCarry ==
  [][AluStep("add_and_store_carry")
       => LET x == OpX(last'.opcode)
              y == OpY(last'.opcode)
          IN /\ V'[x] = (V[x] + V[y]) % 256
             /\ V'[15] = (IF V[x] + V[y] > 255 THEN 1 ELSE 0)
             /\ OtherRegistersKept]_vars

\* 81F4 has run with V1 = 255 and VF = 3: the operand is the VF of before,
\* the sum wrapped and the flag is the carry
C17_Witness ==
  /\ LastHandler = "add_and_store_carry"
  /\ OpX(last.opcode) = 1
  /\ OpY(last.opcode) = 15
  /\ memory[START + 1] = 255
  /\ memory[START + 5] = 3
  /\ V[1] = 2
  /\ V[15] = 1

(* C18: subtract 8XY5 with X other than F leaves Vx = (Vx - Vy) mod 256   *)
(* and VF = 1 iff Vx >= Vy; reverse subtract 8XY7 leaves Vx = (Vy - Vx)   *)
(* mod 256 and VF = 1 iff Vy >= Vx; difference and flag are taken from    *)
(* the values before the instruction, for every Y, Y = F included (the VF *)
(* of before is the operand).                                             *)
C18_SubtractBorrow ==
  [][/\ AluStep("subtract")
          => LET x == OpX(last'.opcode)
                 y == OpY(last'.opcode)
             IN /\ V'[x] = (V[x] - V[y] + 256) % 256
                /\ V'[15] = (IF V[x] >= V[y] THEN 1 ELSE 0)
     /\ AluStep("reverse_subtract")
          => LET x == OpX(last'.opcode)
                 y == OpY(last'.opcode)
             IN /\ V'[x] = (V[y] - V[x] + 256) % 256
                /\ V'[15] = (IF V[y] >= V[x] THEN 1 ELSE 0)]_vars

(* C19: shift right 8XY6 with X other than F leaves Vx = floor(Vx / 2)    *)
(* and VF = bit 0 of the Vx of before; shift left 8XYE leaves Vx = (2 *   *)
(* Vx) mod 256 and VF = bit 7 of the Vx of before; Vy is neither read nor *)
(* modified.                                                              *)
C19_Shifts ==
  [][/\ AluStep("shift_right")
          => LET x == OpX(last'.opcode)
             IN /\ V'[x] = V[x] \div 2
                /\ V'[15] = V[x] % 2
                /\ OtherRegistersKept
     /\ AluStep("shift_left")
          => LET x == OpX(last'.opcode)
             IN /\ V'[x] = (2 * V[x]) % 256
                /\ V'[15] = (V[x] \div 128) % 2
                /\ OtherRegistersKept]_vars

\* 8126 has run with V1 = 0xAD and V2 = 128: V1 = 0x56, VF = 1, V2 kept
C19_Witness ==
  /\ LastHandler = "shift_right"
  /\ OpX(last.opcode) = 1
  /\ OpY(last.opcode) = 2
  /\ memory[START + 1] = 173
  /\ V[1] = 86
  /\ V[2] = 128
  /\ V[15] = 1

(* C20: after random-and-mask CXNN every bit set in Vx is set in NN, so   *)
(* Vx <= NN, for every byte the random source returns; with NN = 0x0F the *)
(* result is at most 0x0F.                                                *)
C20_RandMasked ==
  [][(RunningCycle /\ Handler(last'.opcode) = "rand")
       => LET x == OpX(last'.opcode)
              nn == OpNN(last'.opcode)
          IN /\ \A bit \in 0..7 :
                  ((V'[x] \div Pow2(bit)) % 2 = 1)
                    => ((nn \div Pow2(bit)) % 2 = 1)
             /\ V'[x] <= nn]_vars

\* C10F has run and the random byte had all the low bits set
C20_Witness ==
  /\ LastHandler = "rand"
  /\ OpNN(last.opcode) = 15
  /\ V[OpX(last.opcode)] = 15

(* C21: write_bcd FX33 with I <= 4093 leaves memory[I] = Vx div 100,       *)
(* memory[I + 1] = (Vx div 10) mod 10 and memory[I + 2] = Vx mod 10, each  *)
(* in 0..9 and together the decimal digits of Vx, for every Vx in 0..255;  *)
(* I, every register and every other memory byte are unchanged.            *)
C21_WriteBcd ==
  [][(/\ RunningCycle
      /\ Handler(last'.opcode) = "write_binary_coded_decimal"
      /\ I <= MEMORY_SIZE - 3)
       => LET vx == V[OpX(last'.opcode)]
          IN /\ memory'[I] = vx \div 100
             /\ memory'[I + 1] = (vx \div 10) % 10
             /\ memory'[I + 2] = vx % 10
             /\ \A k \in 0..2 : memory'[I + k] \in 0..9
             /\ 100 * memory'[I] + 10 * memory'[I + 1] + memory'[I + 2] = vx
             /\ memory' = [memory EXCEPT ![I] = memory'[I],
                                         ![I + 1] = memory'[I + 1],
                                         ![I + 2] = memory'[I + 2]]
             /\ UNCHANGED <<I, V>>]_vars

\* F133 has run with V1 = 255 at I = 4093, the last address it may have
C21_Witness ==
  /\ LastHandler = "write_binary_coded_decimal"
  /\ I = 4093
  /\ V[1] = 255
  /\ <<memory[4093], memory[4094], memory[4095]>> = <<2, 5, 5>>
  /\ ~ub

(* C22: store registers FX55 followed later by load registers FX65 with   *)
(* the same X and the same I leaves in V0..VX the values they held at the  *)
(* store, also when they were overwritten in between, provided no byte of  *)
(* memory[I..I + X] was changed in between and I + X <= 4095.              *)
C22_StoreLoadRoundTrip ==
  [][(/\ RunningCycle
      /\ Handler(last'.opcode) = "store_registers_from_memory"
      /\ stored.x = OpX(last'.opcode)
      /\ stored.i = I
      /\ I + stored.x <= MEMORY_SIZE - 1)
       => \A k \in 0..stored.x : V'[k] = stored.v[k]]_vars

\* F265 has run at I = 4093 after F255 there with V0 = 18 and V1 = 52;
\* in between V0 was loaded with 237, V1 incremented and three bytes
\* written elsewhere
C22_Witness ==
  /\ LastHandler = "store_registers_from_memory"
  /\ OpX(last.opcode) = 2
  /\ stored.x = 2
  /\ stored.i = 4093
  /\ I = 4093
  /\ memory[START + 11] = 237
  /\ <<memory[784], memory[785], memory[786]>> = <<0, 5, 3>>
  /\ <<V[0], V[1], V[2]>> = <<18, 52, 0>>
  /\ ~ub

(* C23: FX55 and FX65 leave I unchanged; FX55 writes only memory[I..I + X] *)
(* and changes no register; FX65 writes only V0..VX and changes no memory  *)
(* byte; draw DXYN leaves I and memory unchanged.                          *)
C23_StoreLoadFrame ==
  [][/\ (/\ RunningCycle
          /\ Handler(last'.opcode) = "store_memory_from_registers"
          /\ I + OpX(last'.opcode) <= MEMORY_SIZE - 1)
          => /\ UNCHANGED <<I, V>>
             /\ \A a \in 0..(MEMORY_SIZE - 1) :
                  (a < I \/ a > I + OpX(last'.opcode))
                    => memory'[a] = memory[a]
     /\ (/\ RunningCycle
          /\ Handler(last'.opcode) = "store_registers_from_memory"
          /\ I + OpX(last'.opcode) <= MEMORY_SIZE - 1)
          => /\ UNCHANGED <<I, memory>>
             /\ \A r \in 0..(REGISTER_COUNT - 1) :
                  r > OpX(last'.opcode) => V'[r] = V[r]
     /\ (/\ RunningCycle
          /\ Handler(last'.opcode) = "draw"
          /\ I + OpN(last'.opcode) <= MEMORY_SIZE)
          => UNCHANGED <<I, memory>>]_vars

\* FF55 has run at I = 4080: VF = 9 is in the last byte of memory and I is
\* still 4080
C23_Witness ==
  /\ LastHandler = "store_memory_from_registers"
  /\ OpX(last.opcode) = 15
  /\ I = 4080
  /\ V[15] = 9
  /\ memory[4080] = V[0]
  /\ memory[4095] = 9
  /\ memory[4079] = 0
  /\ ~ub

(* C24: no cycle decrements a timer: after a cycle DT is Vx if the        *)
(* instruction executed is FX15 and the DT of before otherwise, ST is Vx   *)
(* if it is FX18 and the ST of before otherwise; FX07 copies DT into Vx.   *)
(* Outside cycles DT changes only through set_DT and reset, ST only        *)
(* through set_ST and reset.                                               *)
C24_TimersFrame ==
  [][/\ (last'.op = "cycle")
          => /\ DT' = IF /\ RunningCycle
                         /\ Handler(last'.opcode) = "set_delay_timer"
                      THEN V[OpX(last'.opcode)] ELSE DT
             /\ ST' = IF /\ RunningCycle
                         /\ Handler(last'.opcode) = "set_sound_timer"
                      THEN V[OpX(last'.opcode)] ELSE ST
     /\ (RunningCycle /\ Handler(last'.opcode) = "load_from_delay_timer")
          => V'[OpX(last'.opcode)] = DT
     /\ (last'.op # "cycle" /\ DT' # DT) => last'.op \in {"set_DT", "reset"}
     /\ (last'.op # "cycle" /\ ST' # ST)
          => last'.op \in {"set_ST", "reset"}]_vars

\* FC07 has run after FA15 and FA18 set both timers to 7 and the host set
\* the delay timer to 5: VC = 5, the sound timer is still 7
C24_Witness ==
  /\ LastHandler = "load_from_delay_timer"
  /\ OpX(last.opcode) = 12
  /\ V[10] = 7
  /\ V[12] = 5
  /\ DT = 5
  /\ ST = 7

(* C25: in every reachable state 0 <= SP < 16, and every stack write of a *)
(* call and every stack read of a return uses an index in 0..15, also a   *)
(* call with 16 calls outstanding and a return with none outstanding.     *)
C25_StackInBounds ==
  /\ SP \in 0..(STACK_SIZE - 1)
  /\ (LastHandler \in {"call", "ret"}) => ~ub

(* C26: in every reachable state PC < 4096 and both bytes a cycle         *)
(* fetches, memory[PC] and memory[PC + 1], are inside the 4096-byte       *)
(* store.  (States after an access outside an array are left aside: what  *)
(* they hold is not determined.)                                          *)
C26_PcInMemory ==
  ub \/ (/\ PC < MEMORY_SIZE
         /\ ~waiting_for_input => PC + 1 < MEMORY_SIZE)

(* C27: in every reachable state PC is even, for any loaded program and   *)
(* any sequence of cycles, key events and resets.  (States after an       *)
(* access outside an array are left aside.)                               *)
C27_PcEven == ub \/ PC % 2 = 0

(* C28: in every reachable state every one of the 64 x 32 display cells   *)
(* holds 0 or 1: draw only XORs a cell with 1, and clear-display, reset   *)
(* and construction only write 0.                                         *)
C28_PixelsBinary ==
  \A cell \in 0..(WIDTH * HEIGHT - 1) : display_buffer[cell] \in {0, 1}

\* the first three rows of the glyph have been drawn over the glyph: they
\* are dark again, the fourth row is still lit
C28_Witness ==
  /\ LastHandler = "draw"
  /\ OpN(last.opcode) = 3
  /\ V[15] = 1
  /\ display_buffer[0] = 0
  /\ display_buffer[2 * WIDTH] = 0
  /\ display_buffer[3 * WIDTH] = 1
  /\ display_buffer[4 * WIDTH + 3] = 1

(* C29: a cycle that executes clear-display 00E0, from any display        *)
(* content, leaves all 2048 display cells 0 and PC advanced by 2; V0..VF, *)
(* I, SP, the stack, memory, the timers and the keypad are unchanged.     *)
C29_ClearDisplay ==
  [][(RunningCycle /\ Handler(last'.opcode) = "cls")
       => /\ \A cell \in 0..(WIDTH * HEIGHT - 1) : display_buffer'[cell] = 0
          /\ PC' = PC + 2
          /\ UNCHANGED <<V, I, SP, stack, memory, DT, ST, keypad>>]_vars

\* 00E0 has run after the two draws, with VF = 1 and the fourth row of the
\* glyph lit before it: the display is dark, VF is still 1
C29_Witness ==
  /\ LastHandler = "cls"
  /\ drawn.display # << >>
  /\ drawn.display[3 * WIDTH] = 1
  /\ display_buffer = ZeroDisplay
  /\ V[15] = 1
  /\ V[10] = 7
  /\ ST = 7
  /\ PC = last.pc + 2

(* C30: load immediate 6XNN, add immediate 7XNN, copy 8XY0, OR 8XY1, AND  *)
(* 8XY2, XOR 8XY3 and random CXNN, executed with X other than F, leave VF *)
(* and every register other than Vx unchanged; 7XNN leaves Vx = (Vx + NN) *)
(* mod 256 and records no carry.                                          *)
C30_PlainOpsKeepFlag ==
  [][(/\ RunningCycle
      /\ Handler(last'.opcode) \in
           { "load_from_byte", "add", "load_from_register_to_register",
             "bitwise_or", "bitwise_and", "bitwise_xor", "rand" }
      /\ OpX(last'.opcode) # 15)
       => /\ \A r \in 0..(REGISTER_COUNT - 1) :
               r # OpX(last'.opcode) => V'[r] = V[r]
          /\ (Handler(last'.opcode) = "add")
               => V'[OpX(last'.opcode)] =
                    (V[OpX(last'.opcode)] + OpNN(last'.opcode)) % 256]_vars

\* 8121 has run with VF = 3 after 71F0 wrapped V1 = 173 to 157: V1 is
\* 157 | 90 and VF is still 3
C30_Witness ==
  /\ LastHandler = "bitwise_or"
  /\ OpX(last.opcode) = 1
  /\ OpY(last.opcode) = 2
  /\ memory[START + 3] = 173
  /\ memory[START + 7] = 240
  /\ V[2] = 90
  /\ V[1] = 223
  /\ V[15] = 3

(* C31: load-sprite-address FX29 leaves I = 5 * Vx for every Vx in        *)
(* 0..255 (Vx is not masked, so I can be as large as 1275); for Vx <= 15  *)
(* that address is the first byte of the glyph of digit Vx in the font    *)
(* table at address 0; no register and no memory byte is changed.         *)
C31_SpriteAddress ==
  [][(RunningCycle /\ Handler(last'.opcode) = "load_sprite")
       => LET vx == V[OpX(last'.opcode)]
          IN /\ I' = 5 * vx
             /\ (vx <= 15)
                  => \A k \in 0..4 : memory'[I' + k] = fontset[5 * vx + k + 1]
             /\ UNCHANGED <<V, memory>>]_vars

\* F129 has run with V1 = 255: I is 1275, past the font table
C31_Witness ==
  /\ LastHandler = "load_sprite"
  /\ OpX(last.opcode) = 1
  /\ V[1] = 255
  /\ I = 1275

(* C32: right after a flag-writing instruction (8XY4, 8XY5, 8XY6, 8XY7,   *)
(* 8XYE) VF is 0 or 1 and equals the carry, not-borrow or shifted-out bit *)
(* computed from the operand values of before the instruction, for all X  *)
(* and Y, X = F included (the flag, not the result, remains in VF).       *)
C32_FlagFromOperands ==
  [][(/\ RunningCycle
      /\ Handler(last'.opcode) \in
           { "add_and_store_carry", "subtract", "shift_right",
             "reverse_subtract", "shift_left" })
       => LET h == Handler(last'.opcode)
              vx == V[OpX(last'.opcode)]
              vy == V[OpY(last'.opcode)]
              flag == CASE h = "add_and_store_carry" -> vx + vy > 255
                        [] h = "subtract" -> vx >= vy
                        [] h = "shift_right" -> vx % 2 = 1
                        [] h = "reverse_subtract" -> vy >= vx
                        [] OTHER -> (vx \div 128) % 2 = 1
          IN V'[15] = (IF flag THEN 1 ELSE 0)]_vars

(* C33: while the number of outstanding calls stays between 0 and 16, SP  *)
(* equals that number, a call at address A with SP = s writes A + 2 into  *)
(* stack[s] and changes no other stack entry, a return sets PC to the     *)
(* return address of the most recent call not yet returned from, and no   *)
(* instruction other than call modifies the stack.                        *)
C33_StackDiscipline ==
  [][(last'.op = "cycle" /\ calls' # << -1 >>)
       => /\ SP = Len(calls)
          /\ SP' = Len(calls')
          /\ (RunningCycle /\ Handler(last'.opcode) = "call")
               => stack' = [stack EXCEPT ![SP] = PC + 2]
          /\ (RunningCycle /\ Handler(last'.opcode) = "ret")
               => PC' = calls[Len(calls)]
          /\ ~(RunningCycle /\ Handler(last'.opcode) = "call")
               => stack' = stack]_vars

\* the inner subroutine at 0x400 has returned into the outer one at 0x300,
\* whose call from the start address is still outstanding
C33_Witness ==
  /\ LastHandler = "ret"
  /\ calls = << START + 2 >>
  /\ SP = 1
  /\ PC = 772
  /\ stack[0] = START + 2
  /\ stack[1] = 772
  /\ V[12] = 9

(* C34: every memory access an instruction makes through I uses an       *)
(* address in 0..4095: draw reads memory[I + row] for row < N, write_bcd  *)
(* writes memory[I..I + 2], FX55 writes and FX65 reads memory[I..I + X],  *)
(* also when I is at or near 0xFFF and when add_I has raised I above it.  *)
C34_AccessThroughIInMemory ==
  [][/\ (RunningCycle /\ Handler(last'.opcode) = "draw")
          => \A row \in 0..(OpN(last'.opcode) - 1) : I + row < MEMORY_SIZE
     /\ (RunningCycle
         /\ Handler(last'.opcode) = "write_binary_coded_decimal")
          => I + 2 < MEMORY_SIZE
     /\ (RunningCycle
         /\ Handler(last'.opcode) \in {"store_memory_from_registers",
                                       "store_registers_from_memory"})
          => I + OpX(last'.opcode) < MEMORY_SIZE]_vars

(* C35: every keypad access uses an index in 0..15: the key queries EX9E  *)
(* and EXA1 index the keypad with the content of Vx, whatever value in    *)
(* 0..255 it holds, and set_keypad with its argument; neither key query   *)
(* modifies a keypad entry.                                               *)
C35_KeypadIndexInRange ==
  [][/\ (RunningCycle /\ Handler(last'.opcode) \in KeySkips)
          => /\ V[OpX(last'.opcode)] < KEYPAD_OPTIONS
             /\ keypad' = keypad
     /\ (last'.op = "set_keypad") => last'.a \in 0..(KEYPAD_OPTIONS - 1)]_vars

(* C36: draw DXYN takes its screen origin from the Vx and Vy of before    *)
(* the instruction and uses it for every row and pixel of the sprite,     *)
(* also when X = F or Y = F: the cells toggled are those the set sprite   *)
(* bits target from that origin, and clearing or setting VF during the    *)
(* draw moves nothing.                                                    *)
C36_DrawOriginFixed ==
  [][(/\ RunningCycle
      /\ Handler(last'.opcode) = "draw"
      /\ SpriteInMemory)
       => \A cell \in 0..(WIDTH * HEIGHT - 1) :
            display_buffer'[cell] =
              IF cell \in Targets(last'.opcode)
              THEN (display_buffer[cell] + 1) % 2
              ELSE display_buffer[cell]]_vars

====
